---- MODULE Spec2Model ----
(***************************************************************************)
(* Model of the two binaries of the repository:                            *)
(*   src/bin/main.rs         the main-context launcher                     *)
(*   src/bin/bevy_worker.rs  the worker-context bootstrapper               *)
(* and of the message transport between the two execution contexts.        *)
(***************************************************************************)
EXTENDS Integers, Sequences, FiniteSets, TLC

VARIABLES
    env,            \* what the host environment provides (fixed per run)
    mainPc,         \* position of main.rs main()
    canvas,         \* the HtmlCanvasElement created by main, or NoCanvas
    bodyChildren,   \* children appended to document.body, in order
    mainSurface,    \* main's offscreen_canvas binding: "none" | "live" | "detached"
    mainOnmessage,  \* worker.onmessage set on the main side
    workerPc,       \* position of the worker context
    workerOnmessage,\* scope.onmessage set on the worker side
    toMain,         \* messages in flight worker -> main
    toWorker,       \* messages in flight main -> worker
    log,            \* every message ever posted, in posting order
    mainRecv,       \* number of message events dispatched to main's handler
    dropped,        \* messages lost in transit
    unheard,        \* messages dispatched in the worker while no handler was set
    handled,        \* one record per invocation of the worker's handler
    workerSurfaces, \* surfaces the worker holds a live reference to
    app,            \* the engine instance under construction / running, or NoApp
    envPosts        \* number of messages posted by a foreign holder of the worker

vars == <<env, mainPc, canvas, bodyChildren, mainSurface, mainOnmessage,
          workerPc, workerOnmessage, toMain, toWorker, log, mainRecv,
          dropped, unheard, handled, workerSurfaces, app, envPosts>>

mainVars == <<mainPc, canvas, bodyChildren, mainSurface, mainOnmessage>>
engineVars == <<handled, workerSurfaces, app>>

----------------------------------------------------------------------------
\* Bounds of the model.

\* messages a foreign script may post to the worker (open worker only)
MaxEnvPosts == 2
\* entities already in the world when the window substitute is built alone
MaxEntities == 2
\* distinct surfaces that foreign payloads / foreign windows may carry
MaxForeignSurface == 2
\* scheduling ticks followed for a runner that loops
MaxFrames == 3

----------------------------------------------------------------------------
\* Program constants.

CanvasWidth == 1280
CanvasHeight == 720

\* the surface created by main.rs; foreign surfaces are 2..MaxForeignSurface
MainSurfaceId == 1

NoCanvas == [exists |-> FALSE]
NoApp == [exists |-> FALSE]
NoHandle == [kind |-> "none"]

\* HtmlCanvasElement as document.create_element("canvas") returns it
NewCanvas == [exists |-> TRUE, width |-> 300, height |-> 150, offscreen |-> FALSE]

ReadyMsg == [type |-> "Array", surface |-> 0, transfer |-> {}]
SurfaceMsg(id) == [type |-> "OffscreenCanvas", surface |-> id, transfer |-> {id}]

EnvFields == {"window", "document", "body", "origin", "blob", "url", "spawn"}


\* the four shapes (and the camera) that setup spawns
Scene ==
    { [kind |-> "Camera2d",       color |-> "none",                x |-> 0],
      [kind |-> "Circle",         color |-> "PURPLE",              x |-> -150],
      [kind |-> "Rectangle",      color |-> "rgb(0.25,0.25,0.75)", x |-> -50],
      [kind |-> "Quad",           color |-> "LIME_GREEN",          x |-> 50],
      [kind |-> "RegularPolygon", color |-> "TURQUOISE",           x |-> 150] }

\* the plugins of DefaultPlugins, in the order the group adds them
PluginOrder ==
    << "LogPlugin", "TaskPoolPlugin", "TypeRegistrationPlugin", "TimePlugin",
       "FrameCountPlugin", "TransformPlugin", "HierarchyPlugin",
       "DiagnosticsPlugin", "InputPlugin", "WindowPlugin",
       "AccessibilityPlugin", "RegisterPrimaryWindow", "AssetPlugin",
       "RenderPlugin", "ImagePlugin", "CorePipelinePlugin", "SpritePlugin",
       "ScheduleRunnerPlugin" >>

----------------------------------------------------------------------------
\* Initial state: nothing has run; the environment is fixed for the run.

Init ==
    /\ env \in [EnvFields -> BOOLEAN]
    /\ mainPc = "start"
    /\ canvas = NoCanvas
    /\ bodyChildren = << >>
    /\ mainSurface = "none"
    /\ mainOnmessage = FALSE
    /\ workerPc = "unspawned"
    /\ workerOnmessage = FALSE
    /\ toMain = << >>
    /\ toWorker = << >>
    /\ log = << >>
    /\ mainRecv = 0
    /\ dropped = {}
    /\ unheard = << >>
    /\ handled = << >>
    /\ workerSurfaces = {}
    /\ app = NoApp
    /\ envPosts = 0

----------------------------------------------------------------------------
\* main.rs: main(), one action per statement that can fail or changes state.

\* a failed unwrap()/expect() traps: the context stops where it is
MainStep(from, ok, to) ==
    /\ mainPc = from
    /\ mainPc' = IF ok THEN to ELSE "aborted"

MainGetWindow ==
    /\ MainStep("start", env["window"], "window")
    /\ UNCHANGED <<env, canvas, bodyChildren, mainSurface, mainOnmessage,
                   workerPc, workerOnmessage, toMain, toWorker, log, mainRecv,
                   dropped, unheard, handled, workerSurfaces, app, envPosts>>

MainGetDocument ==
    /\ MainStep("window", env["document"], "document")
    /\ UNCHANGED <<env, canvas, bodyChildren, mainSurface, mainOnmessage,
                   workerPc, workerOnmessage, toMain, toWorker, log, mainRecv,
                   dropped, unheard, handled, workerSurfaces, app, envPosts>>

\* variant: the absent body is not noticed
MainGetBodyUnchecked ==
    /\ MainStep("document", TRUE, "body")
    /\ UNCHANGED <<env, canvas, bodyChildren, mainSurface, mainOnmessage,
                   workerPc, workerOnmessage, toMain, toWorker, log, mainRecv,
                   dropped, unheard, handled, workerSurfaces, app, envPosts>>

MainGetBody ==
    /\ MainStep("document", env["body"], "body")
    /\ UNCHANGED <<env, canvas, bodyChildren, mainSurface, mainOnmessage,
                   workerPc, workerOnmessage, toMain, toWorker, log, mainRecv,
                   dropped, unheard, handled, workerSurfaces, app, envPosts>>

MainCreateElement ==
    /\ MainStep("body", TRUE, "created")
    /\ canvas' = NewCanvas
    /\ UNCHANGED <<env, bodyChildren, mainSurface, mainOnmessage,
                   workerPc, workerOnmessage, toMain, toWorker, log, mainRecv,
                   dropped, unheard, handled, workerSurfaces, app, envPosts>>

MainSetWidth ==
    /\ MainStep("created", TRUE, "width_set")
    /\ canvas' = [canvas EXCEPT !.width = CanvasWidth]
    /\ UNCHANGED <<env, bodyChildren, mainSurface, mainOnmessage,
                   workerPc, workerOnmessage, toMain, toWorker, log, mainRecv,
                   dropped, unheard, handled, workerSurfaces, app, envPosts>>

\* variant: the height is given the width's value
MainSetHeightAsWidth ==
    /\ MainStep("width_set", TRUE, "height_set")
    /\ canvas' = [canvas EXCEPT !.height = CanvasWidth]
    /\ UNCHANGED <<env, bodyChildren, mainSurface, mainOnmessage,
                   workerPc, workerOnmessage, toMain, toWorker, log, mainRecv,
                   dropped, unheard, handled, workerSurfaces, app, envPosts>>

MainSetHeight ==
    /\ MainStep("width_set", TRUE, "height_set")
    /\ canvas' = [canvas EXCEPT !.height = CanvasHeight]
    /\ UNCHANGED <<env, bodyChildren, mainSurface, mainOnmessage,
                   workerPc, workerOnmessage, toMain, toWorker, log, mainRecv,
                   dropped, unheard, handled, workerSurfaces, app, envPosts>>

MainAppendChild ==
    /\ MainStep("height_set", TRUE, "appended")
    /\ bodyChildren' = Append(bodyChildren, "canvas")
    /\ UNCHANGED <<env, canvas, mainSurface, mainOnmessage,
                   workerPc, workerOnmessage, toMain, toWorker, log, mainRecv,
                   dropped, unheard, handled, workerSurfaces, app, envPosts>>

MainTransferControl ==
    /\ MainStep("appended", ~canvas.offscreen, "offscreen")
    /\ canvas' = [canvas EXCEPT !.offscreen = TRUE]
    /\ mainSurface' = "live"
    /\ UNCHANGED <<env, bodyChildren, mainOnmessage,
                   workerPc, workerOnmessage, toMain, toWorker, log, mainRecv,
                   dropped, unheard, handled, workerSurfaces, app, envPosts>>

\* main.rs: worker_new()
WorkerNewOrigin ==
    /\ MainStep("offscreen", env["window"] /\ env["origin"], "wn_origin")
    /\ UNCHANGED <<env, canvas, bodyChildren, mainSurface, mainOnmessage,
                   workerPc, workerOnmessage, toMain, toWorker, log, mainRecv,
                   dropped, unheard, handled, workerSurfaces, app, envPosts>>

WorkerNewBlob ==
    /\ MainStep("wn_origin", env["blob"], "wn_blob")
    /\ UNCHANGED <<env, canvas, bodyChildren, mainSurface, mainOnmessage,
                   workerPc, workerOnmessage, toMain, toWorker, log, mainRecv,
                   dropped, unheard, handled, workerSurfaces, app, envPosts>>

WorkerNewUrl ==
    /\ MainStep("wn_blob", env["url"], "wn_url")
    /\ UNCHANGED <<env, canvas, bodyChildren, mainSurface, mainOnmessage,
                   workerPc, workerOnmessage, toMain, toWorker, log, mainRecv,
                   dropped, unheard, handled, workerSurfaces, app, envPosts>>

\* Worker::new: on success the worker context starts loading its script
WorkerNewSpawn ==
    /\ MainStep("wn_url", env["spawn"], "spawned")
    /\ workerPc' = IF env["spawn"] THEN "loading" ELSE workerPc
    /\ UNCHANGED <<env, canvas, bodyChildren, mainSurface, mainOnmessage,
                   workerOnmessage, toMain, toWorker, log, mainRecv,
                   dropped, unheard, handled, workerSurfaces, app, envPosts>>

\* variant: the surface is posted as soon as the handler is registered
MainSetOnmessageEager ==
    /\ MainStep("spawned", TRUE, "idle")
    /\ mainOnmessage' = TRUE
    /\ toWorker' = Append(toWorker, SurfaceMsg(MainSurfaceId))
    /\ log' = Append(log, [from |-> "main", type |-> "OffscreenCanvas"])
    /\ mainSurface' = "detached"
    /\ UNCHANGED <<env, canvas, bodyChildren,
                   workerPc, workerOnmessage, toMain, mainRecv,
                   dropped, unheard, handled, workerSurfaces, app, envPosts>>

\* worker.set_onmessage(..); onmessage.forget(); main returns to the event loop
MainSetOnmessage ==
    /\ MainStep("spawned", TRUE, "idle")
    /\ mainOnmessage' = TRUE
    /\ UNCHANGED <<env, canvas, bodyChildren, mainSurface,
                   workerPc, workerOnmessage, toMain, toWorker, log, mainRecv,
                   dropped, unheard, handled, workerSurfaces, app, envPosts>>


\* variant: the surface is shared with the receiver instead of moved
AfterTransferShared(binding, id, transfer) == binding

\* post_message_with_transfer: what becomes of the sender's binding of `id`
\* once the message, listing `transfer`, has been posted
AfterTransfer(binding, id, transfer) ==
    IF id \in transfer THEN "detached" ELSE binding

\* The event loop of the main context dispatches a message event; the closure
\* registered by main() posts the surface, listed in the transfer array.
\* Posting an already detached surface throws, and expect() traps the handler.
MainOnMessage ==
    /\ mainPc = "idle"
    /\ toMain # << >>
    /\ toMain' = Tail(toMain)
    /\ IF mainOnmessage
       THEN /\ mainRecv' = mainRecv + 1
            /\ IF mainSurface = "live"
               THEN LET msg == SurfaceMsg(MainSurfaceId) IN
                    /\ toWorker' = Append(toWorker, msg)
                    /\ log' = Append(log, [from |-> "main", type |-> msg.type])
                    /\ mainSurface' =
                          AfterTransfer(mainSurface, msg.surface, msg.transfer)
               ELSE UNCHANGED <<toWorker, log, mainSurface>>
       ELSE UNCHANGED <<mainRecv, toWorker, log, mainSurface>>
    /\ UNCHANGED <<env, mainPc, canvas, bodyChildren, mainOnmessage,
                   workerPc, workerOnmessage, dropped, unheard, handled,
                   workerSurfaces, app, envPosts>>

----------------------------------------------------------------------------
\* bevy_worker.rs: main()

\* the generated script has loaded the module and enters main()
WorkerScope ==
    /\ workerPc = "loading"
    /\ workerPc' = "scope"
    /\ UNCHANGED <<env, mainVars, workerOnmessage, toMain, toWorker, log,
                   mainRecv, dropped, unheard, engineVars, envPosts>>

\* variant: the handler is never installed
WorkerSetOnmessageSkipped ==
    /\ workerPc = "scope"
    /\ workerOnmessage' = workerOnmessage
    /\ workerPc' = "handler_set"
    /\ UNCHANGED <<env, mainVars, toMain, toWorker, log,
                   mainRecv, dropped, unheard, engineVars, envPosts>>

WorkerSetOnmessage ==
    /\ workerPc = "scope"
    /\ workerOnmessage' = TRUE
    /\ workerPc' = "handler_set"
    /\ UNCHANGED <<env, mainVars, toMain, toWorker, log,
                   mainRecv, dropped, unheard, engineVars, envPosts>>

\* variant: the readiness signal is sent again while the worker waits
WorkerPostReadyAgain ==
    /\ \/ workerPc = "handler_set"
       \/ workerPc = "idle" /\ handled = << >> /\ Len(log) < 3
    /\ toMain' = Append(toMain, ReadyMsg)
    /\ log' = Append(log, [from |-> "worker", type |-> ReadyMsg.type])
    /\ workerPc' = "idle"
    /\ UNCHANGED <<env, mainVars, workerOnmessage, toWorker,
                   mainRecv, dropped, unheard, engineVars, envPosts>>

WorkerPostReady ==
    /\ workerPc = "handler_set"
    /\ toMain' = Append(toMain, ReadyMsg)
    /\ log' = Append(log, [from |-> "worker", type |-> ReadyMsg.type])
    /\ workerPc' = "idle"
    /\ UNCHANGED <<env, mainVars, workerOnmessage, toWorker,
                   mainRecv, dropped, unheard, engineVars, envPosts>>

\* one invocation of the worker's handler
NewHandled(msg) ==
    [payload |-> msg, result |-> "running", engine |-> FALSE,
     frames |-> 0, drawn |-> {}, targets |-> {}]

\* The worker's event loop dispatches a message event whenever no code of the
\* worker is running. With no handler installed the event has no listener.
WorkerDispatch ==
    /\ workerPc \in {"loading", "idle"}
    /\ toWorker # << >>
    /\ toWorker' = Tail(toWorker)
    /\ IF workerOnmessage
       THEN /\ handled' = Append(handled, NewHandled(Head(toWorker)))
            /\ workerPc' = "h_cast"
            /\ UNCHANGED unheard
       ELSE /\ unheard' = Append(unheard, Head(toWorker))
            /\ UNCHANGED <<handled, workerPc>>
    /\ UNCHANGED <<env, mainVars, workerOnmessage, toMain, log, mainRecv,
                   dropped, workerSurfaces, app, envPosts>>

\* the record of the running handler invocation
Cur == handled[Len(handled)]

SetCur(h, field, value) ==
    [h EXCEPT ![Len(h)] = [@ EXCEPT ![field] = value]]

\* a panic inside the handler traps it: nothing is unwound, and the event
\* loop of the worker goes on
HandlerAbort ==
    /\ handled' = SetCur(handled, "result", "aborted")
    /\ app' = app
    /\ workerPc' = "idle"

\* variant: the payload is cast without a check
IsOffscreenCanvasUnchecked(msg) == TRUE

\* msg.data().dyn_into::<OffscreenCanvas>()
IsOffscreenCanvas(msg) == msg.type = "OffscreenCanvas"

\* msg.data().dyn_into::<OffscreenCanvas>().expect(..)
WorkerCast ==
    /\ workerPc = "h_cast"
    /\ IF IsOffscreenCanvas(Cur.payload)
       THEN /\ workerSurfaces' = workerSurfaces \cup {Cur.payload.surface}
            /\ workerPc' = "sp_new"
            /\ UNCHANGED <<handled, app>>
       ELSE /\ HandlerAbort
            /\ UNCHANGED workerSurfaces
    /\ UNCHANGED <<env, mainVars, workerOnmessage, toMain, toWorker, log,
                   mainRecv, dropped, unheard, envPosts>>


----------------------------------------------------------------------------
\* bevy_worker.rs: single_pass(), DefaultPlugins, RegisterPrimaryWindow, setup

OffscreenCanvasElement(id) == [kind |-> "OffscreenCanvas", surface |-> id]
OtherElement == [kind |-> "Other", surface |-> 0]

\* a window entity as WindowPlugin spawns it
WindowEntity(element) ==
    [window |-> TRUE, primary |-> TRUE, web_element |-> element,
     handle |-> NoHandle]

\* App::new()
SinglePassNew ==
    /\ workerPc = "sp_new"
    /\ app' = [exists |-> TRUE, runOnce |-> FALSE, runner |-> "none",
               primary_window |-> [some |-> FALSE, web_element |-> OtherElement],
               todo |-> << >>, world |-> << >>, startup |-> {}]
    /\ handled' = SetCur(handled, "engine", TRUE)
    /\ workerPc' = "sp_resource"
    /\ UNCHANGED <<env, mainVars, workerOnmessage, toMain, toWorker, log,
                   mainRecv, dropped, unheard, workerSurfaces, envPosts>>

\* variant: the runner settings are left at their default, a loop
SinglePassInsertResourceDefault ==
    /\ workerPc = "sp_resource"
    /\ app' = app
    /\ workerPc' = "sp_plugins"
    /\ UNCHANGED <<env, mainVars, workerOnmessage, toMain, toWorker, log,
                   mainRecv, dropped, unheard, handled, workerSurfaces,
                   envPosts>>

\* .insert_resource(ScheduleRunnerSettings::run_once())
SinglePassInsertResource ==
    /\ workerPc = "sp_resource"
    /\ app' = [app EXCEPT !.runOnce = TRUE]
    /\ workerPc' = "sp_plugins"
    /\ UNCHANGED <<env, mainVars, workerOnmessage, toMain, toWorker, log,
                   mainRecv, dropped, unheard, handled, workerSurfaces,
                   envPosts>>

\* .add_plugins(DefaultPlugins { primary_window: OffscreenCanvas(canvas) }):
\* the group is built; its plugins are then built one by one, in order
SinglePassAddPlugins ==
    /\ workerPc = "sp_plugins"
    /\ app' = [app EXCEPT
                 !.primary_window =
                     [some |-> TRUE,
                      web_element |-> OffscreenCanvasElement(Cur.payload.surface)],
                 !.todo = PluginOrder]
    /\ workerPc' = "sp_building"
    /\ UNCHANGED <<env, mainVars, workerOnmessage, toMain, toWorker, log,
                   mainRecv, dropped, unheard, handled, workerSurfaces,
                   envPosts>>

BuildStep(name) ==
    /\ workerPc = "sp_building"
    /\ app.todo # << >>
    /\ Head(app.todo) = name

PlainPlugins ==
    { PluginOrder[i] : i \in DOMAIN PluginOrder } \
        {"WindowPlugin", "RegisterPrimaryWindow", "ScheduleRunnerPlugin"}

\* a plugin of the engine whose build does not touch the modelled state
BuildPlainPlugin ==
    /\ \E name \in PlainPlugins : BuildStep(name)
    /\ app' = [app EXCEPT !.todo = Tail(@)]
    /\ UNCHANGED <<env, mainVars, workerPc, workerOnmessage, toMain, toWorker,
                   log, mainRecv, dropped, unheard, handled, workerSurfaces,
                   envPosts>>

\* WindowPlugin { primary_window, .. }: spawns the configured primary window
BuildWindowPlugin ==
    /\ BuildStep("WindowPlugin")
    /\ app' = [app EXCEPT
                 !.todo = Tail(@),
                 !.world = IF app.primary_window.some
                           THEN Append(@, WindowEntity(app.primary_window.web_element))
                           ELSE @]
    /\ UNCHANGED <<env, mainVars, workerPc, workerOnmessage, toMain, toWorker,
                   log, mainRecv, dropped, unheard, handled, workerSurfaces,
                   envPosts>>

\* Query<(Entity, &Window, With<PrimaryWindow>)>
PrimaryWindows(world) ==
    { i \in DOMAIN world : world[i].window /\ world[i].primary }

\* match &window.web_element { OffscreenCanvas(canvas) => .., _ => unreachable!() }
WebHandleOf(element) ==
    IF element.kind = "OffscreenCanvas"
    THEN [kind |-> "WebHandle::OffscreenCanvas", surface |-> element.surface]
    ELSE NoHandle

\* variant: the first primary window found is taken, however many there are
RegisterPrimaryWindowFirst(world) ==
    LET found == PrimaryWindows(world) IN
    IF found = {}
    THEN [ok |-> FALSE, world |-> world]
    ELSE LET entity == CHOOSE i \in found : TRUE
             handle == WebHandleOf(world[entity].web_element)
         IN  IF handle = NoHandle
             THEN [ok |-> FALSE, world |-> world]
             ELSE [ok |-> TRUE,
                   world |-> [world EXCEPT ![entity].handle = handle]]

\* the body of RegisterPrimaryWindow::build on a world:
\* get_single().unwrap(), the match, then insert + apply
RegisterPrimaryWindow(world) ==
    LET found == PrimaryWindows(world) IN
    IF Cardinality(found) # 1
    THEN [ok |-> FALSE, world |-> world]
    ELSE LET entity == CHOOSE i \in found : TRUE
             handle == WebHandleOf(world[entity].web_element)
         IN  IF handle = NoHandle
             THEN [ok |-> FALSE, world |-> world]
             ELSE [ok |-> TRUE,
                   world |-> [world EXCEPT ![entity].handle = handle]]

BuildRegisterPrimaryWindow ==
    /\ BuildStep("RegisterPrimaryWindow")
    /\ LET r == RegisterPrimaryWindow(app.world) IN
       IF r.ok
       THEN /\ app' = [app EXCEPT !.todo = Tail(@), !.world = r.world]
            /\ UNCHANGED <<handled, workerPc>>
       ELSE HandlerAbort
    /\ UNCHANGED <<env, mainVars, workerOnmessage, toMain, toWorker,
                   log, mainRecv, dropped, unheard, workerSurfaces, envPosts>>

\* ScheduleRunnerPlugin::default(): installs the runner, configured from the
\* ScheduleRunnerSettings resource present when the plugin is built
BuildScheduleRunnerPlugin ==
    /\ BuildStep("ScheduleRunnerPlugin")
    /\ app' = [app EXCEPT !.todo = Tail(@),
                          !.runner = IF app.runOnce THEN "once" ELSE "loop"]
    /\ UNCHANGED <<env, mainVars, workerPc, workerOnmessage, toMain, toWorker,
                   log, mainRecv, dropped, unheard, handled, workerSurfaces,
                   envPosts>>

\* .add_systems(Startup, setup)
SinglePassAddSystems ==
    /\ workerPc = "sp_building"
    /\ app.todo = << >>
    /\ app' = [app EXCEPT !.startup = @ \cup {"setup"}]
    /\ workerPc' = "sp_run"
    /\ UNCHANGED <<env, mainVars, workerOnmessage, toMain, toWorker, log,
                   mainRecv, dropped, unheard, handled, workerSurfaces,
                   envPosts>>

\* what the Startup schedule spawns
setup(startup) == IF "setup" \in startup THEN Scene ELSE {}

\* the surfaces the renderer can pick up: handles attached to window entities
RenderTargets(world) ==
    { world[i].handle.surface :
        i \in { j \in DOMAIN world : world[j].handle # NoHandle } }

\* variant: the worker acknowledges the surface once the pass is over
SinglePassRunAck ==
    /\ workerPc = "sp_run"
    /\ app.runner = "once"
    /\ handled' = [handled EXCEPT ![Len(handled)] =
                      [Cur EXCEPT !.frames = @ + 1, !.result = "done",
                                  !.targets = RenderTargets(app.world),
                                  !.drawn = setup(app.startup)]]
    /\ app' = NoApp
    /\ workerPc' = "idle"
    /\ toMain' = Append(toMain, ReadyMsg)
    /\ log' = Append(log, [from |-> "worker", type |-> ReadyMsg.type])
    /\ UNCHANGED <<env, mainVars, workerOnmessage, toWorker,
                   mainRecv, dropped, unheard, workerSurfaces, envPosts>>

\* .run(): one scheduling tick of the runner. A run_once runner returns after
\* the tick, and with it single_pass and the handler.
SinglePassRun ==
    /\ workerPc = "sp_run"
    /\ (app.runner = "once" \/ Cur.frames < MaxFrames)
    /\ LET targets == RenderTargets(app.world)
           tick == [Cur EXCEPT
                      !.frames = @ + 1,
                      !.targets = targets,
                      !.drawn = IF targets = {} THEN {} ELSE setup(app.startup)]
       IN  IF app.runner = "once"
           THEN /\ handled' = [handled EXCEPT ![Len(handled)] =
                                  [tick EXCEPT !.result = "done"]]
                /\ app' = NoApp
                /\ workerPc' = "idle"
           ELSE /\ handled' = [handled EXCEPT ![Len(handled)] = tick]
                /\ UNCHANGED <<app, workerPc>>
    /\ UNCHANGED <<env, mainVars, workerOnmessage, toMain, toWorker, log,
                   mainRecv, dropped, unheard, workerSurfaces, envPosts>>


----------------------------------------------------------------------------
\* The transport between the contexts: ordered, at most once.

DropToMain ==
    /\ toMain # << >>
    /\ toMain' = Tail(toMain)
    /\ dropped' = dropped \cup {[to |-> "main", type |-> Head(toMain).type]}
    /\ UNCHANGED <<env, mainVars, workerPc, workerOnmessage, toWorker, log,
                   mainRecv, unheard, engineVars, envPosts>>

DropToWorker ==
    /\ toWorker # << >>
    /\ toWorker' = Tail(toWorker)
    /\ dropped' = dropped \cup {[to |-> "worker", type |-> Head(toWorker).type]}
    /\ UNCHANGED <<env, mainVars, workerPc, workerOnmessage, toMain, log,
                   mainRecv, unheard, engineVars, envPosts>>

----------------------------------------------------------------------------
\* The two contexts together, as main.rs launches them.

MainNext ==
    \/ MainGetWindow
    \/ MainGetDocument
    \/ MainGetBody
    \/ MainCreateElement
    \/ MainSetWidth
    \/ MainSetHeight
    \/ MainAppendChild
    \/ MainTransferControl
    \/ WorkerNewOrigin
    \/ WorkerNewBlob
    \/ WorkerNewUrl
    \/ WorkerNewSpawn
    \/ MainSetOnmessage
    \/ MainOnMessage

EngineNext ==
    \/ BuildPlainPlugin
    \/ BuildWindowPlugin
    \/ BuildRegisterPrimaryWindow
    \/ BuildScheduleRunnerPlugin
    \/ SinglePassAddSystems
    \/ SinglePassRun

WorkerNext ==
    \/ WorkerScope
    \/ WorkerSetOnmessage
    \/ WorkerPostReady
    \/ WorkerDispatch
    \/ WorkerCast
    \/ SinglePassNew
    \/ SinglePassInsertResource
    \/ SinglePassAddPlugins
    \/ EngineNext

Next ==
    \/ MainGetWindow
    \/ MainGetDocument
    \/ MainGetBody
    \/ MainCreateElement
    \/ MainSetWidth
    \/ MainSetHeight
    \/ MainAppendChild
    \/ MainTransferControl
    \/ WorkerNewOrigin
    \/ WorkerNewBlob
    \/ WorkerNewUrl
    \/ WorkerNewSpawn
    \/ MainSetOnmessage
    \/ MainOnMessage
    \/ WorkerScope
    \/ WorkerSetOnmessage
    \/ WorkerPostReady
    \/ WorkerDispatch
    \/ WorkerCast
    \/ SinglePassNew
    \/ SinglePassInsertResource
    \/ SinglePassAddPlugins
    \/ BuildPlainPlugin
    \/ BuildWindowPlugin
    \/ BuildRegisterPrimaryWindow
    \/ BuildScheduleRunnerPlugin
    \/ SinglePassAddSystems
    \/ SinglePassRun
    \/ DropToMain
    \/ DropToWorker

Spec == Init /\ [][Next]_vars

\* Each context keeps executing its code and its event loop keeps dispatching
\* what is queued; nothing obliges the transport to lose a message.
FairSpec == Spec /\ WF_vars(MainNext) /\ WF_vars(WorkerNext)

----------------------------------------------------------------------------
\* The worker binary on its own: whoever holds the worker may post anything.

ForeignSurfaces == 2 .. (1 + MaxForeignSurface)

ForeignPayloads ==
    {ReadyMsg, [type |-> "String", surface |-> 0, transfer |-> {}]}
        \cup { SurfaceMsg(id) : id \in ForeignSurfaces }

EnvPost ==
    /\ envPosts < MaxEnvPosts
    /\ \E msg \in ForeignPayloads :
          toWorker' = Append(toWorker, msg)
    /\ envPosts' = envPosts + 1
    /\ UNCHANGED <<env, mainVars, workerPc, workerOnmessage, toMain, log,
                   mainRecv, dropped, unheard, engineVars>>

OpenInit ==
    /\ env = [f \in EnvFields |-> TRUE]
    /\ mainPc = "absent"
    /\ canvas = NoCanvas
    /\ bodyChildren = << >>
    /\ mainSurface = "none"
    /\ mainOnmessage = FALSE
    /\ workerPc = "loading"
    /\ workerOnmessage = FALSE
    /\ toMain = << >>
    /\ toWorker = << >>
    /\ log = << >>
    /\ mainRecv = 0
    /\ dropped = {}
    /\ unheard = << >>
    /\ handled = << >>
    /\ workerSurfaces = {}
    /\ app = NoApp
    /\ envPosts = 0

OpenNext ==
    \/ EnvPost
    \/ WorkerScope
    \/ WorkerSetOnmessage
    \/ WorkerPostReady
    \/ WorkerDispatch
    \/ WorkerCast
    \/ SinglePassNew
    \/ SinglePassInsertResource
    \/ SinglePassAddPlugins
    \/ BuildPlainPlugin
    \/ BuildWindowPlugin
    \/ BuildRegisterPrimaryWindow
    \/ BuildScheduleRunnerPlugin
    \/ SinglePassAddSystems
    \/ SinglePassRun

OpenSpec == OpenInit /\ [][OpenNext]_vars

----------------------------------------------------------------------------
\* The plugin group on its own: built on an app whose world and window
\* configuration are whatever the caller made them.

Elements ==
    {OtherElement} \cup { OffscreenCanvasElement(id) : id \in ForeignSurfaces }

Entities ==
    [window : BOOLEAN, primary : BOOLEAN, web_element : Elements,
     handle : {NoHandle}]

Worlds == UNION { [1 .. n -> Entities] : n \in 0 .. MaxEntities }

WindowConfigs ==
    {[some |-> FALSE, web_element |-> OtherElement]}
        \cup { [some |-> TRUE, web_element |-> e] :
                 e \in {OtherElement, OffscreenCanvasElement(MainSurfaceId)} }

PluginInit ==
    /\ env = [f \in EnvFields |-> TRUE]
    /\ mainPc = "absent"
    /\ canvas = NoCanvas
    /\ bodyChildren = << >>
    /\ mainSurface = "none"
    /\ mainOnmessage = FALSE
    /\ workerPc = "sp_building"
    /\ workerOnmessage = TRUE
    /\ toMain = << >>
    /\ toWorker = << >>
    /\ log = << >>
    /\ mainRecv = 0
    /\ dropped = {}
    /\ unheard = << >>
    /\ handled = << [NewHandled(SurfaceMsg(MainSurfaceId)) EXCEPT !.engine = TRUE] >>
    /\ workerSurfaces = {MainSurfaceId}
    /\ \E w \in Worlds, cfg \in WindowConfigs :
          app = [exists |-> TRUE, runOnce |-> TRUE, runner |-> "none",
                 primary_window |-> cfg, todo |-> PluginOrder,
                 world |-> w, startup |-> {}]
    /\ envPosts = 0

PluginNext ==
    \/ BuildPlainPlugin
    \/ BuildWindowPlugin
    \/ BuildRegisterPrimaryWindow
    \/ BuildScheduleRunnerPlugin
    \/ SinglePassAddSystems
    \/ SinglePassRun

PluginSpec == PluginInit /\ [][PluginNext]_vars


----------------------------------------------------------------------------
\* Properties.

\* positions of main(), in program order
MainPcOrder ==
    << "start", "window", "document", "body", "created", "width_set",
       "height_set", "appended", "offscreen", "wn_origin", "wn_blob",
       "wn_url", "spawned", "idle" >>

PcIndex(pc) == CHOOSE i \in DOMAIN MainPcOrder : MainPcOrder[i] = pc

\* main() has reached position `pc` or gone past it
MainReached(pc) ==
    /\ mainPc \in { MainPcOrder[i] : i \in DOMAIN MainPcOrder }
    /\ PcIndex(mainPc) >= PcIndex(pc)

SurfaceSent ==
    \E i \in DOMAIN log : log[i].from = "main" /\ log[i].type = "OffscreenCanvas"

ReadySent ==
    \E i \in DOMAIN log : log[i].from = "worker"

Handshake ==
    << [from |-> "worker", type |-> "Array"],
       [from |-> "main",   type |-> "OffscreenCanvas"] >>

IsPrefix(a, b) ==
    /\ Len(a) <= Len(b)
    /\ \A i \in DOMAIN a : a[i] = b[i]

ValidDom == env["window"] /\ env["document"] /\ env["body"]

CanvasSizedAndAppended ==
    /\ canvas.exists
    /\ canvas.width = CanvasWidth
    /\ canvas.height = CanvasHeight
    /\ bodyChildren = << "canvas" >>

\* C1: the surface is posted only after a message from the worker has been
\* dispatched to main's handler; never "surface sent" with nothing received.
C1_SurfaceOnlyAfterReady ==
    /\ SurfaceSent => (mainRecv >= 1 /\ ReadySent)
    /\ (mainRecv = 0) => (toWorker = << >> /\ mainSurface # "detached")

C1_Witness == SurfaceSent /\ mainRecv = 1

\* C2: all messages ever posted form a prefix of [ready from the worker,
\* surface from main]; the worker posts one message and no acknowledgment,
\* main posts at most one, the surface.
C2_OneHandoff ==
    /\ IsPrefix(log, Handshake)
    /\ (workerPc \notin {"unspawned", "loading", "scope", "handler_set"})
          => ReadySent
    /\ handled # << >> => log = Handshake

C2_Witness ==
    /\ log = Handshake
    /\ handled # << >>
    /\ handled[1].result = "done"
    /\ workerPc = "idle"

\* transfer_control_to_offscreen has produced the surface
SurfaceCreated == canvas.exists /\ canvas.offscreen

\* C3: the surface has one owner at a time: main holds it live from its
\* creation until the surface message is posted, never afterwards, and main
\* and the worker never hold a live reference together.
C3_SingleOwner ==
    /\ ~(mainSurface = "live" /\ MainSurfaceId \in workerSurfaces)
    /\ SurfaceSent => mainSurface = "detached"
    /\ (SurfaceCreated /\ ~SurfaceSent) => mainSurface = "live"
    /\ ~SurfaceCreated => (mainSurface = "none" /\ workerSurfaces = {})

C3_Witness == MainSurfaceId \in workerSurfaces /\ mainSurface = "detached"

\* C4: a handler invocation whose payload is not an offscreen surface aborts
\* in the handler; no engine is constructed and no frame runs for it.
C4_NonSurfaceAborts ==
    \A i \in DOMAIN handled :
        handled[i].payload.type # "OffscreenCanvas" =>
            /\ ~ handled[i].engine
            /\ handled[i].frames = 0
            /\ handled[i].drawn = {}
            /\ \/ handled[i].result = "aborted"
               \/ i = Len(handled) /\ workerPc = "h_cast"

C4_Witness ==
    \E i \in DOMAIN handled :
        /\ handled[i].payload.type # "OffscreenCanvas"
        /\ handled[i].result = "aborted"
        /\ workerPc = "idle"

AtRegisterPrimaryWindow ==
    /\ workerPc = "sp_building"
    /\ app.todo # << >>
    /\ Head(app.todo) = "RegisterPrimaryWindow"

NoHandleAttached == \A i \in DOMAIN app.world : app.world[i].handle = NoHandle

\* C5: when RegisterPrimaryWindow::build runs with zero or several primary
\* windows it aborts, attaches no handle, and no frame is executed; a handle
\* it attaches wraps the surface of that window's configuration.
C5_WindowSubstitute ==
    /\ [][ (AtRegisterPrimaryWindow
              /\ Cardinality(PrimaryWindows(app.world)) # 1)
           => /\ Cur'.result = "aborted"
              /\ NoHandleAttached'
              /\ workerPc' = "idle" ]_vars
    /\ [](Cur.result = "aborted" => (Cur.frames = 0 /\ NoHandleAttached))
    /\ [](app.exists =>
            \A i \in DOMAIN app.world :
               app.world[i].handle # NoHandle =>
                  /\ i \in PrimaryWindows(app.world)
                  /\ Cardinality(PrimaryWindows(app.world)) = 1
                  /\ app.world[i].web_element.kind = "OffscreenCanvas"
                  /\ app.world[i].handle.surface = app.world[i].web_element.surface)

C5_Witness ==
    /\ Cur.result = "aborted"
    /\ Cardinality(PrimaryWindows(app.world)) > 1
    /\ \E i \in PrimaryWindows(app.world) :
          app.world[i].web_element.kind = "OffscreenCanvas"

\* C6: with window, document and body present, main appends exactly one
\* canvas, 1280 x 720, sized and appended before its control is transferred
\* and before the worker is spawned.
C6_OneCanvas ==
    /\ [](/\ Len(bodyChildren) <= 1
          /\ MainReached("appended") => CanvasSizedAndAppended
          /\ (canvas.exists /\ canvas.offscreen) => CanvasSizedAndAppended
          /\ mainSurface # "none" => CanvasSizedAndAppended
          /\ workerPc # "unspawned" => CanvasSizedAndAppended)
    /\ (ValidDom ~> CanvasSizedAndAppended)

C6_Witness ==
    /\ CanvasSizedAndAppended
    /\ canvas.offscreen
    /\ workerPc # "unspawned"
    /\ mainPc = "idle"

TotalFrames == IF handled = << >> THEN 0 ELSE handled[1].frames

EngineDone ==
    /\ workerPc = "idle"
    /\ Len(handled) = 1
    /\ handled[1].result = "done"
    /\ handled[1].engine
    /\ handled[1].frames = 1
    /\ handled[1].targets = {MainSurfaceId}
    /\ handled[1].drawn = Scene
    /\ Cardinality({ e \in handled[1].drawn : e.kind # "Camera2d" }) = 4
    /\ app = NoApp

\* C7: once the surface message is delivered, the worker eventually builds one
\* engine on the received surface and runs exactly one tick that renders the
\* scene; it is idle from then on, and no run executes more than one frame.
C7_SinglePass ==
    /\ [](Len(handled) <= 1 /\ TotalFrames <= 1)
    /\ [](handled # << >> => <>[]EngineDone)

C7_Witness == EngineDone /\ ValidDom /\ mainRecv = 1

\* C8: whenever the surface message has been sent the worker already has its
\* handler installed; no surface is dispatched to a worker without listener.
C8_ListenerBeforeSurface ==
    /\ SurfaceSent => workerOnmessage
    /\ ReadySent => workerOnmessage
    /\ unheard = << >>

C8_Witness == toWorker # << >> /\ workerOnmessage /\ SurfaceSent

ReadyDropped == [to |-> "main", type |-> "Array"] \in dropped
SurfaceDropped == [to |-> "worker", type |-> "OffscreenCanvas"] \in dropped

\* C9: no timeout, retry or resend: after a dropped ready, main never sends
\* the surface; after a dropped surface, the worker never runs the engine;
\* once a message is lost nobody posts again and the waiting state persists.
C9_NoRetry ==
    /\ [](ReadyDropped =>
            /\ ~ SurfaceSent
            /\ mainRecv = 0
            /\ toMain = << >> /\ toWorker = << >>
            /\ log = << Handshake[1] >>)
    /\ [](SurfaceDropped =>
            /\ handled = << >> /\ app = NoApp
            /\ toMain = << >> /\ toWorker = << >>
            /\ log = Handshake)
    /\ [][ dropped # {} =>
             /\ log' = log
             /\ toMain' = toMain /\ toWorker' = toWorker
             /\ dropped' = dropped
             /\ mainRecv' = mainRecv
             /\ engineVars' = engineVars
             /\ (workerPc = "idle" => workerPc' = "idle")
             /\ (mainPc = "idle" => mainPc' = "idle") ]_vars

C9_Witness == SurfaceDropped /\ workerPc = "idle" /\ mainPc = "idle"

\* C10: with window, document or body absent main aborts at once: no canvas
\* is created or appended, no worker is spawned, no message is ever sent.
C10_AbsentDomAborts ==
    ~ ValidDom =>
        /\ mainPc \in {"start", "window", "document", "aborted"}
        /\ canvas = NoCanvas
        /\ bodyChildren = << >>
        /\ mainSurface = "none"
        /\ workerPc = "unspawned"
        /\ ~ mainOnmessage
        /\ log = << >>
        /\ toMain = << >> /\ toWorker = << >>

C10_Witness ==
    /\ env["window"] /\ env["document"] /\ ~ env["body"]
    /\ mainPc = "aborted"

====
